---- MODULE Spec2Model ----
(***************************************************************************)
(* A model of the job-lead tracker: the Lead record and its timeline and   *)
(* task operations (src/src/data.rs), the Leads store indexed by company   *)
(* (src/src/data.rs) and the command dispatcher with its load / execute /  *)
(* write-back cycle over the two persisted documents (src/src/main.rs).    *)
(***************************************************************************)
EXTENDS Naturals, Sequences, FiniteSets, TLC

VARIABLES
    db,        \* the in-memory store: company name -> sequence of leads
    detached,  \* Option<Lead>: the lead last returned by value by close_lead
    last,      \* the last call made on the store or on a lead, with its result
    written,   \* ghost: every (time, message) ever passed to add_status / seeded
    ops,       \* number of calls made so far
    disk,      \* the active store document on disk
    archive,   \* the archive document on disk
    pc,        \* per invocation: where main is
    cmd,       \* per invocation: the parsed command line
    mem,       \* per invocation: main's db, the store loaded from disk
    details,   \* per invocation: Option<Lead>, the lead close_lead handed to Close
    arch,      \* per invocation: db_archive, the archive loaded by Close
    outcome,   \* per invocation: the result of Args::execute
    before,    \* ghost, per invocation: the active document when it was loaded
    resolved_on, \* per invocation: execute's updated_on, the resolved time
    runs,      \* number of invocations started so far
    raced,     \* ghost, per invocation: the invocations whose write-back reached
               \* the active document since this one loaded it
    born,      \* ghost: number of New commands whose write-back succeeded
    faulted    \* ghost: some write of a document has failed

lib == <<ops, db, detached, last, written>>
cli == <<pc, disk, archive, cmd, mem, details, arch, outcome, before, resolved_on, runs,
         raced, born, faulted>>
vars == <<ops, pc, db, detached, last, written, disk, archive, cmd, mem, details, arch,
          outcome, before, resolved_on, runs, raced, born, faulted>>

----------------------------------------------------------------------------
(* Bounds of the model.                                                    *)

MaxTime == 2
MaxTasks == 2
MaxPositions == 2
MaxLeadOps == 3
MaxStoreOps == 4
MaxRuns == 2

Times == 1..MaxTime
Companies == {"Acme", "Initech"}
Positions == {"Engineer"}
Sources == {"acme.com/jobs/1"}
TaskTexts == {"Send resume", "Call back"}
StatusTexts == {"Phone screen"}
Reasons == {"Rejected"}
NoteNames == {"hr"}
NoteTexts == {"slow to answer"}

----------------------------------------------------------------------------
(* Option and Result values.                                               *)

None == <<>>
Some(x) == <<x>>
IsSome(o) == Len(o) = 1
Unwrap(o) == o[1]

Unit == <<>>
Ok(v) == [ok |-> TRUE, val |-> v]
Err(e) == [ok |-> FALSE, err |-> e]

\* anyhow!(fmt, args...): the format string and its arguments.
Anyhow(msg, args) == [msg |-> msg, args |-> args, context |-> <<>>]

\* Result::context: wraps the error of a failed result, keeps a success.
Context(res, c) ==
    IF res.ok THEN res ELSE Err([res.err EXCEPT !.context = <<c>> \o @])

----------------------------------------------------------------------------
(* Containers of the standard library, as the code uses them.              *)

\* Mutant: the first element is removed, whatever the index.
Vec_remove_first(v, index) == SubSeq(v, 2, Len(v))

\* Vec::remove(index): removes the element at a 0-based index, shifting
\* the later elements left.
Vec_remove(v, index) ==
    [i \in 1..(Len(v) - 1) |-> IF i <= index THEN v[i] ELSE v[i + 1]]

\* Vec::pop on a non-empty vector: drops the last element.
Vec_pop(v) == SubSeq(v, 1, Len(v) - 1)

\* A HashMap is a function whose domain is the set of keys present.
EmptyMap == [k \in {} |-> <<>>]

HashMap_insert(m, k, v) ==
    [x \in (DOMAIN m) \cup {k} |-> IF x = k THEN v ELSE m[x]]

\* Mutant: the key is left in the map.
HashMap_remove_nothing(m, k) == m

HashMap_remove(m, k) == [x \in (DOMAIN m) \ {k} |-> m[x]]

\* A BTreeMap<DateTime, String> is the sequence of its <<key, value>> pairs
\* in iteration order.  insert replaces the value of a key already present
\* and otherwise places the pair after every smaller key.
BTreeMap_insert(m, k, v) ==
    IF \E i \in DOMAIN m : m[i][1] = k
    THEN [i \in DOMAIN m |-> IF m[i][1] = k THEN <<k, v>> ELSE m[i]]
    ELSE LET n == Cardinality({i \in DOMAIN m : m[i][1] < k})
         IN  SubSeq(m, 1, n) \o << <<k, v>> >> \o SubSeq(m, n + 1, Len(m))

----------------------------------------------------------------------------
(* Lead (src/src/data.rs).                                                 *)

\* Lead::new: now is the value of Utc::now() at construction.
Lead_new(now, position, source) ==
    [position       |-> position,
     source         |-> source,
     notes          |-> EmptyMap,
     interviews     |-> <<>>,
     red_flags      |-> <<>>,
     status_updates |-> << <<now, "Created">> >>,
     todo           |-> <<>>,
     wait           |-> <<>>]

add_note(self, name, note) ==
    [self EXCEPT !.notes =
        HashMap_insert(@, name,
            Append(IF name \in DOMAIN @ THEN @[name] ELSE <<>>, note))]

\* Mutant: the timeline kept as a plain list, every update pushed at its end.
add_status_append(self, date, status) ==
    [self EXCEPT !.status_updates = Append(@, <<date, status>>)]

add_status(self, date, status) ==
    [self EXCEPT !.status_updates = BTreeMap_insert(@, date, status)]

\* Mutant: the task is queued without its timeline entry.
add_todo_no_status(self, updated_on, action, deadline) ==
    [self EXCEPT !.todo = Append(@, [action |-> action, deadline |-> deadline])]

add_todo(self, updated_on, action, deadline) ==
    LET s1 == add_status(self, updated_on, "TODO: " \o action)
    IN  [s1 EXCEPT !.todo = Append(@, [action |-> action, deadline |-> deadline])]

\* Mutant: the most recent todo is removed instead of the one at index.
complete_todo_pop(self, updated_on, index) ==
    IF index >= Len(self.todo)
    THEN [self |-> self, ret |-> Err(Anyhow("No such todo", <<>>))]
    ELSE LET todo == self.todo[Len(self.todo)]
             s1 == [self EXCEPT !.todo = Vec_pop(@)]
         IN  [self |-> add_status(s1, updated_on, "DONE: " \o todo.action),
              ret  |-> Ok(Unit)]

complete_todo(self, updated_on, index) ==
    IF index >= Len(self.todo)
    THEN [self |-> self, ret |-> Err(Anyhow("No such todo", <<>>))]
    ELSE LET todo == self.todo[index + 1]
             s1 == [self EXCEPT !.todo = Vec_remove(@, index)]
         IN  [self |-> add_status(s1, updated_on, "DONE: " \o todo.action),
              ret  |-> Ok(Unit)]

add_wait(self, updated_on, action, expected) ==
    LET s1 == add_status(self, updated_on, "WAITING: " \o action)
    IN  [s1 EXCEPT !.wait = Append(@, [action |-> action, expected |-> expected])]

\* Mutant: an index past the end is silently accepted.
complete_wait_ignores_missing(self, updated_on, index) ==
    IF index >= Len(self.wait)
    THEN [self |-> self, ret |-> Ok(Unit)]
    ELSE LET wait == self.wait[index + 1]
             s1 == [self EXCEPT !.wait = Vec_remove(@, index)]
         IN  [self |-> add_status(s1, updated_on, "RECEIVED: " \o wait.action),
              ret  |-> Ok(Unit)]

complete_wait(self, updated_on, index) ==
    IF index >= Len(self.wait)
    THEN [self |-> self, ret |-> Err(Anyhow("No such wait", <<>>))]
    ELSE LET wait == self.wait[index + 1]
             s1 == [self EXCEPT !.wait = Vec_remove(@, index)]
         IN  [self |-> add_status(s1, updated_on, "RECEIVED: " \o wait.action),
              ret  |-> Ok(Unit)]

----------------------------------------------------------------------------
(* Leads (src/src/data.rs).  A store is the map of its leads field.        *)

Leads_new == EmptyMap

\* Mutant: the lead replaces the company's positions instead of joining them.
push_lead_replaces(self, name, lead) ==
    [self |-> HashMap_insert(self, name, <<lead>>),
     ret  |-> 0]

\* Mutant: the lead is placed ahead of the company's positions.
push_lead_prepend(self, name, lead) ==
    LET positions == <<lead>> \o (IF name \in DOMAIN self THEN self[name] ELSE <<>>)
    IN  [self |-> HashMap_insert(self, name, positions),
         ret  |-> Len(positions) - 1]

push_lead(self, name, lead) ==
    LET positions == Append(IF name \in DOMAIN self THEN self[name] ELSE <<>>, lead)
    IN  [self |-> HashMap_insert(self, name, positions),
         ret  |-> Len(positions) - 1]

new_lead(self, now, name, position, source) ==
    push_lead(self, name, Lead_new(now, position, source))

\* The shared part of close_lead's mutants: cleanup tells whether the key of
\* an emptied company is removed, stamp whether the closing entry is added.
close_lead_variant(self, date, name, index, reason, cleanup, stamp) ==
    IF name \notin DOMAIN self
    THEN [self |-> self, ret |-> Err(Anyhow("No such company", <<>>))]
    ELSE
    LET positions == self[name] IN
    IF index = None /\ Len(positions) # 1
    THEN [self |-> self,
          ret  |-> Err(Anyhow("There are {} positions for this company, please specify which one to close",
                              <<Len(positions)>>))]
    ELSE IF index # None /\ ~(Unwrap(index) < Len(positions))
    THEN [self |-> self,
          ret  |-> Err(Anyhow("There are only {} positions for this company, cannot close position {}",
                              <<Len(positions), Unwrap(index)>>))]
    ELSE
    LET removed == IF index = None THEN positions[Len(positions)]
                                   ELSE positions[Unwrap(index) + 1]
        rest    == IF index = None THEN Vec_pop(positions)
                                   ELSE Vec_remove(positions, Unwrap(index))
        lead    == IF stamp THEN add_status(removed, date, "Closed: " \o reason) ELSE removed
    IN  [self |-> IF Len(rest) = 0 /\ cleanup THEN HashMap_remove(self, name)
                                              ELSE HashMap_insert(self, name, rest),
         ret  |-> Ok(lead)]

\* Mutant: the key of a company left without positions is kept.
close_lead_no_cleanup(self, date, name, index, reason) ==
    close_lead_variant(self, date, name, index, reason, FALSE, TRUE)

\* Mutant: the removed lead is returned without its closing entry.
close_lead_no_status(self, date, name, index, reason) ==
    close_lead_variant(self, date, name, index, reason, TRUE, FALSE)

\* Mutant: an index past the end is reported, after the last position was
\* removed in its place.
close_lead_clamps_index(self, date, name, index, reason) ==
    LET r == close_lead_variant(self, date, name, index, reason, TRUE, TRUE)
    IN  IF ~r.ret.ok /\ name \in DOMAIN self /\ index # None
        THEN [self |-> IF Len(self[name]) = 1 THEN HashMap_remove(self, name)
                       ELSE HashMap_insert(self, name, Vec_pop(self[name])),
              ret  |-> r.ret]
        ELSE r

\* Mutant: the lead is returned with its outstanding todos and waits dropped.
close_lead_drops_tasks(self, date, name, index, reason) ==
    LET r == close_lead_variant(self, date, name, index, reason, TRUE, TRUE)
    IN  IF r.ret.ok
        THEN [self |-> r.self,
              ret  |-> Ok([r.ret.val EXCEPT !.todo = <<>>, !.wait = <<>>])]
        ELSE r

\* Mutant: without an index the last position is closed, however many the
\* company has.
close_lead_last_when_ambiguous(self, date, name, index, reason) ==
    IF name \in DOMAIN self /\ index = None
    THEN close_lead_variant(self, date, name, Some(Len(self[name]) - 1), reason, TRUE, TRUE)
    ELSE close_lead_variant(self, date, name, index, reason, TRUE, TRUE)

close_lead(self, date, name, index, reason) ==
    IF name \notin DOMAIN self
    THEN [self |-> self, ret |-> Err(Anyhow("No such company", <<>>))]
    ELSE
    LET positions == self[name] IN
    IF index = None /\ Len(positions) # 1
    THEN [self |-> self,
          ret  |-> Err(Anyhow("There are {} positions for this company, please specify which one to close",
                              <<Len(positions)>>))]
    ELSE IF index # None /\ ~(Unwrap(index) < Len(positions))
    THEN [self |-> self,
          ret  |-> Err(Anyhow("There are only {} positions for this company, cannot close position {}",
                              <<Len(positions), Unwrap(index)>>))]
    ELSE
    LET removed == IF index = None THEN positions[Len(positions)]
                                   ELSE positions[Unwrap(index) + 1]
        rest    == IF index = None THEN Vec_pop(positions)
                                   ELSE Vec_remove(positions, Unwrap(index))
        lead    == add_status(removed, date, "Closed: " \o reason)
    IN  [self |-> IF Len(rest) = 0 THEN HashMap_remove(self, name)
                                   ELSE HashMap_insert(self, name, rest),
         ret  |-> Ok(lead)]

\* Mutant: without an index the first position is returned whenever there is one.
get_first_when_ambiguous(self, name, index) ==
    IF name \notin DOMAIN self
    THEN Err(Anyhow("No such company", <<>>))
    ELSE
    LET positions == self[name] IN
    IF index = None /\ Len(positions) >= 1 THEN Ok(positions[1])
    ELSE IF index = None
    THEN Err(Anyhow("There are {} positions for this company, please specify which one to modify",
                    <<Len(positions)>>))
    ELSE IF Unwrap(index) < Len(positions) THEN Ok(positions[Unwrap(index) + 1])
    ELSE Err(Anyhow("There are only {} positions for this company, cannot modify position {}",
                    <<Len(positions), Unwrap(index)>>))

get(self, name, index) ==
    IF name \notin DOMAIN self
    THEN Err(Anyhow("No such company", <<>>))
    ELSE
    LET positions == self[name] IN
    IF index = None /\ Len(positions) = 1 THEN Ok(positions[1])
    ELSE IF index = None
    THEN Err(Anyhow("There are {} positions for this company, please specify which one to modify",
                    <<Len(positions)>>))
    ELSE IF Unwrap(index) < Len(positions) THEN Ok(positions[Unwrap(index) + 1])
    ELSE Err(Anyhow("There are only {} positions for this company, cannot modify position {}",
                    <<Len(positions), Unwrap(index)>>))

\* Mutant: a valid index resolves to the first position.
get_mut_ignores_index(self, name, index) ==
    IF name \notin DOMAIN self
    THEN Err(Anyhow("No such company", <<>>))
    ELSE
    LET positions == self[name] IN
    IF index = None /\ Len(positions) = 1 THEN Ok(0)
    ELSE IF index = None
    THEN Err(Anyhow("There are {} positions for this company, please specify which one to modify",
                    <<Len(positions)>>))
    ELSE IF Unwrap(index) < Len(positions) THEN Ok(0)
    ELSE Err(Anyhow("There are only {} positions for this company, cannot modify position {}",
                    <<Len(positions), Unwrap(index)>>))

\* get_mut returns a mutable reference: the slot (0-based) it points at.
get_mut(self, name, index) ==
    IF name \notin DOMAIN self
    THEN Err(Anyhow("No such company", <<>>))
    ELSE
    LET positions == self[name] IN
    IF index = None /\ Len(positions) = 1 THEN Ok(0)
    ELSE IF index = None
    THEN Err(Anyhow("There are {} positions for this company, please specify which one to modify",
                    <<Len(positions)>>))
    ELSE IF Unwrap(index) < Len(positions) THEN Ok(Unwrap(index))
    ELSE Err(Anyhow("There are only {} positions for this company, cannot modify position {}",
                    <<Len(positions), Unwrap(index)>>))

\* The lead a mutable reference points at, and the store after a write
\* through the reference.
Deref(self, name, slot) == self[name][slot + 1]
Assign(self, name, slot, lead) == [self EXCEPT ![name][slot + 1] = lead]

----------------------------------------------------------------------------
(* The persisted documents (serde_yaml) and the files holding them.        *)

LeadFields == {"position", "source", "notes", "interviews", "red_flags",
               "status_updates", "todo", "wait"}
RequiredFields == {"position", "source"}

\* Serialize for Lead: a field marked skip_serializing_if is left out of the
\* document when it is empty.
Serialize_Lead(lead) ==
    [f \in {g \in LeadFields : g \in RequiredFields \/ DOMAIN lead[g] # {}} |-> lead[f]]

\* Deserialize for Lead: a field marked serde(default) that the document
\* lacks takes its default, the empty container.
Deserialize_Lead(doc) ==
    [f \in LeadFields |->
        IF f \in DOMAIN doc THEN doc[f]
        ELSE IF f = "notes" THEN EmptyMap ELSE <<>>]

\* serde_yaml::to_writer(file, &Leads): the flattened map, company by company.
to_writer(self) ==
    [c \in DOMAIN self |-> [i \in DOMAIN self[c] |-> Serialize_Lead(self[c][i])]]

\* serde_yaml::from_reader of a well-formed document.
from_reader(doc) ==
    [c \in DOMAIN doc |-> [i \in DOMAIN doc[c] |-> Deserialize_Lead(doc[c][i])]]

\* A file: absent, holding a document, or holding text that is no document.
Missing == [exists |-> FALSE, valid |-> FALSE, doc |-> EmptyMap]
File(doc) == [exists |-> TRUE, valid |-> TRUE, doc |-> doc]
Corrupt == [exists |-> TRUE, valid |-> FALSE, doc |-> EmptyMap]

\* Leads::from_path: io_error is an open failure other than NotFound.
from_path(file, io_error) ==
    IF io_error THEN Err(Anyhow("Error while reading file {path}", <<>>))
    ELSE IF ~file.exists THEN Ok(Leads_new)
    ELSE IF ~file.valid THEN Err(Anyhow("Invalid yaml file {}", <<>>))
    ELSE Ok(from_reader(file.doc))

\* File::create followed by serde_yaml::to_writer.  fault is "none", "create"
\* (the file could not be created: it is untouched) or "write" (the file was
\* truncated by create and the document did not reach it whole).
WriteFaults == {"none", "create", "write"}

\* Mutant: the document is merged into the file instead of replacing it: a
\* company the file holds and the store lacks is kept.
create_and_write_merging(file, self, fault) ==
    IF fault = "create" THEN file
    ELSE IF fault = "write" THEN Corrupt
    ELSE File([c \in (DOMAIN self) \cup (IF file.valid THEN DOMAIN file.doc ELSE {}) |->
                 IF c \in DOMAIN self
                 THEN [i \in DOMAIN self[c] |-> Serialize_Lead(self[c][i])]
                 ELSE file.doc[c]])

create_and_write(file, self, fault) ==
    IF fault = "create" THEN file
    ELSE IF fault = "write" THEN Corrupt
    ELSE File(to_writer(self))

----------------------------------------------------------------------------
(* Calls and their observation.                                            *)

Deadlines == {MaxTime + 7}
Expecteds == {None}

\* The record of a call: which operation, on which company and index, at
\* which time, with which text, and what it returned.
Call(op, name, index, time, text, ret) ==
    [op |-> op, name |-> name, index |-> index, time |-> time,
     text |-> text, ret |-> ret]

NoCall == Call("none", "", None, 0, "", Ok(Unit))

----------------------------------------------------------------------------
(* Invocations of the program (src/src/main.rs).                           *)

Procs == {"p1", "p2"}

\* A parsed command line: Args with its subcommand flattened.  text is the
\* position, reason, status, action or note of the subcommand, task the
\* index given to Done, on the --on option.
Cmd(kind, company, index, on, text, task, deadline) ==
    [kind |-> kind, company |-> company, index |-> index, on |-> on,
     text |-> text, task |-> task, deadline |-> deadline]

NoCmd == Cmd("none", "", None, None, "", 0, None)

\* No invocation has started: neither document exists yet.
CliIdle ==
    /\ disk = Missing
    /\ archive = Missing
    /\ pc = [p \in Procs |-> "idle"]
    /\ cmd = [p \in Procs |-> NoCmd]
    /\ mem = [p \in Procs |-> Leads_new]
    /\ details = [p \in Procs |-> None]
    /\ arch = [p \in Procs |-> Leads_new]
    /\ outcome = [p \in Procs |-> Ok("")]
    /\ before = [p \in Procs |-> Missing]
    /\ resolved_on = [p \in Procs |-> 0]
    /\ runs = 0
    /\ raced = [p \in Procs |-> {}]
    /\ born = 0
    /\ faulted = FALSE

----------------------------------------------------------------------------
(* The life of one lead: the only position of one company, from Lead::new  *)
(* through the Lead methods to close_lead.                                 *)

TheCompany == "Acme"

InitLead ==
    \E now \in Times :
        /\ db = new_lead(Leads_new, now, TheCompany, "Engineer", "acme.com/jobs/1").self
        /\ detached = None
        /\ last = NoCall
        /\ written = {<<now, "Created">>}
        /\ ops = 0
        /\ CliIdle

LeadOpen == TheCompany \in DOMAIN db /\ ops < MaxLeadOps

L_add_status ==
    /\ LeadOpen
    /\ \E date \in Times, status \in StatusTexts :
        /\ db' = Assign(db, TheCompany, 0, add_status(Deref(db, TheCompany, 0), date, status))
        /\ last' = Call("add_status", TheCompany, 0, date, status, Ok(Unit))
        /\ written' = written \cup {<<date, status>>}
    /\ ops' = ops + 1
    /\ UNCHANGED cli
    /\ UNCHANGED detached

L_add_todo ==
    /\ LeadOpen
    /\ Len(Deref(db, TheCompany, 0).todo) < MaxTasks
    /\ \E updated_on \in Times, action \in TaskTexts, deadline \in Deadlines :
        /\ db' = Assign(db, TheCompany, 0,
                        add_todo(Deref(db, TheCompany, 0), updated_on, action, deadline))
        /\ last' = Call("add_todo", TheCompany, 0, updated_on, action, Ok(Unit))
        /\ written' = written \cup {<<updated_on, "TODO: " \o action>>}
    /\ ops' = ops + 1
    /\ UNCHANGED cli
    /\ UNCHANGED detached

L_complete_todo ==
    /\ LeadOpen
    /\ \E updated_on \in Times, index \in 0..MaxTasks :
        LET lead == Deref(db, TheCompany, 0)
            r == complete_todo(lead, updated_on, index)
        IN  /\ db' = Assign(db, TheCompany, 0, r.self)
            /\ last' = Call("complete_todo", TheCompany, index, updated_on,
                            IF index < Len(lead.todo) THEN lead.todo[index + 1].action ELSE "", r.ret)
            /\ written' = IF r.ret.ok /\ index < Len(lead.todo)
                          THEN written \cup {<<updated_on, "DONE: " \o lead.todo[index + 1].action>>}
                          ELSE written
    /\ ops' = ops + 1
    /\ UNCHANGED cli
    /\ UNCHANGED detached

L_add_wait ==
    /\ LeadOpen
    /\ Len(Deref(db, TheCompany, 0).wait) < MaxTasks
    /\ \E updated_on \in Times, action \in TaskTexts, expected \in Expecteds :
        /\ db' = Assign(db, TheCompany, 0,
                        add_wait(Deref(db, TheCompany, 0), updated_on, action, expected))
        /\ last' = Call("add_wait", TheCompany, 0, updated_on, action, Ok(Unit))
        /\ written' = written \cup {<<updated_on, "WAITING: " \o action>>}
    /\ ops' = ops + 1
    /\ UNCHANGED cli
    /\ UNCHANGED detached

L_complete_wait ==
    /\ LeadOpen
    /\ \E updated_on \in Times, index \in 0..MaxTasks :
        LET lead == Deref(db, TheCompany, 0)
            r == complete_wait(lead, updated_on, index)
        IN  /\ db' = Assign(db, TheCompany, 0, r.self)
            /\ last' = Call("complete_wait", TheCompany, index, updated_on,
                            IF index < Len(lead.wait) THEN lead.wait[index + 1].action ELSE "", r.ret)
            /\ written' = IF r.ret.ok /\ index < Len(lead.wait)
                          THEN written \cup {<<updated_on, "RECEIVED: " \o lead.wait[index + 1].action>>}
                          ELSE written
    /\ ops' = ops + 1
    /\ UNCHANGED cli
    /\ UNCHANGED detached

L_close_lead ==
    /\ LeadOpen
    /\ \E date \in Times, reason \in Reasons :
        LET r == close_lead(db, date, TheCompany, None, reason) IN
        /\ db' = r.self
        /\ detached' = IF r.ret.ok THEN Some(r.ret.val) ELSE detached
        /\ last' = Call("close_lead", TheCompany, None, date, reason, r.ret)
        /\ written' = IF r.ret.ok THEN written \cup {<<date, "Closed: " \o reason>>}
                                  ELSE written
    /\ ops' = ops + 1
    /\ UNCHANGED cli

NextLead ==
    \/ L_add_status
    \/ L_add_todo
    \/ L_complete_todo
    \/ L_add_wait
    \/ L_complete_wait
    \/ L_close_lead

SpecLead == InitLead /\ [][NextLead]_vars

\* The lead under observation: in the store while open, detached once closed.
TheLead == IF TheCompany \in DOMAIN db THEN Deref(db, TheCompany, 0) ELSE Unwrap(detached)

----------------------------------------------------------------------------
(* Properties of one lead, checked under SpecLead.                         *)

Range(s) == {s[i] : i \in DOMAIN s}
Keys(m) == {m[i][1] : i \in DOMAIN m}
Messages(m) == {m[i][2] : i \in DOMAIN m}
StrictlyAscending(m) == \A i, j \in DOMAIN m : i < j => m[i][1] < m[j][1]

\* The list a completion works on, and the status prefix it writes.
TaskList(lead, op) == IF op = "complete_todo" THEN lead.todo ELSE lead.wait
DonePrefix(op) == IF op = "complete_todo" THEN "DONE: " ELSE "RECEIVED: "

\* C5: complete_todo / complete_wait with an index below the length of the
\* list succeeds, leaves the list one shorter with the other entries in their
\* previous relative order and the entry at the index gone, and the timeline
\* holds "DONE: {action}" / "RECEIVED: {action}" of the removed entry at time.
C5_CompleteRemovesAtIndex ==
    [][(last'.op \in {"complete_todo", "complete_wait"}
            /\ last'.index < Len(TaskList(TheLead, last'.op)))
        => LET old == TaskList(TheLead, last'.op)
               new  == TaskList(TheLead', last'.op)
               i      == last'.index
           IN  /\ last'.ret = Ok(Unit)
               /\ Len(new) = Len(old) - 1
               /\ \A j \in 1..Len(new) :
                     new[j] = IF j <= i THEN old[j] ELSE old[j + 1]
               /\ <<last'.time, DonePrefix(last'.op) \o old[i + 1].action>>
                     \in Range(TheLead'.status_updates)]_vars

\* C5 witness: a todo at index 0 of a list of two was completed; the other
\* entry remains and the timeline holds the DONE entry of the removed one.
C5_Witness ==
    /\ last.op = "complete_todo"
    /\ last.ret.ok
    /\ last.index = 0
    /\ Len(TheLead.todo) = 1
    /\ TheLead.todo[1].action # last.text
    /\ <<last.time, "DONE: " \o last.text>> \in Range(TheLead.status_updates)

\* C6: complete_todo / complete_wait with an index at or past the length of
\* the list (index 0 on an empty list included) fail with the not-found error
\* and leave the todo list, the wait list and the timeline as they were.
C6_CompleteOutOfRangeFails ==
    [][(last'.op \in {"complete_todo", "complete_wait"}
            /\ last'.index >= Len(TaskList(TheLead, last'.op)))
        => /\ ~last'.ret.ok
           /\ last'.ret.err.msg =
                 (IF last'.op = "complete_todo" THEN "No such todo" ELSE "No such wait")
           /\ TheLead'.todo = TheLead.todo
           /\ TheLead'.wait = TheLead.wait
           /\ TheLead'.status_updates = TheLead.status_updates]_vars

\* C6 witness: complete_wait(_, 1) failed on a wait list of length one.
C6_Witness ==
    /\ last.op = "complete_wait"
    /\ ~last.ret.ok
    /\ last.index = 1
    /\ TheCompany \in DOMAIN db
    /\ Len(TheLead.wait) = 1

\* C7: the timeline holds at most one message per timestamp in ascending
\* time order; add_status at a new timestamp adds an entry and keeps every
\* existing one, at a timestamp already present it replaces the message of
\* that instant and the number of entries is unchanged.
C7_TimelineIsOrderedMap ==
    [][last'.op = "add_status"
        => LET m  == TheLead.status_updates
               m2 == TheLead'.status_updates
               t  == last'.time
           IN  /\ StrictlyAscending(m2)
               /\ <<t, last'.text>> \in Range(m2)
               /\ \A e \in Range(m) : e[1] # t => e \in Range(m2)
               /\ Len(m2) = (IF t \in Keys(m) THEN Len(m) ELSE Len(m) + 1)]_vars

\* C7 witness: add_status was called with a time earlier than an entry that
\* was already there, and is read before it.
C7_Witness ==
    /\ last.op = "add_status"
    /\ TheCompany \in DOMAIN db
    /\ Len(TheLead.status_updates) = 2
    /\ TheLead.status_updates[1] = <<last.time, last.text>>
    /\ TheLead.status_updates[2][2] = "Created"

\* C8 as stated: the timeline contains the message of every entry ever
\* written to it, whatever the timestamps.
C8_Original_EveryEntryKept ==
    \A w \in written : w[2] \in Messages(TheLead.status_updates)

\* C8 amended: per timestamp the timeline holds exactly one of the entries
\* written at it; an entry whose timestamp no other entry of the lead used
\* (the seed "Created" included) is still in the timeline.
C8_EntryKeptUnlessTimestampReused ==
    LET m == TheLead.status_updates IN
    /\ \A w \in written : (\A v \in written : v[1] = w[1] => v = w) => w \in Range(m)
    /\ Range(m) \subseteq written
    /\ Keys(m) = {w[1] : w \in written}

\* C8 witness: a closed lead whose closing entry alone used its timestamp,
\* while an earlier entry was replaced by a later one at the same instant.
C8_Witness ==
    /\ detached # None
    /\ last.op = "close_lead"
    /\ \A w \in written : w[1] = last.time => w[2] = "Closed: " \o last.text
    /\ Cardinality(written) >= 3
    /\ <<last.time, "Closed: " \o last.text>> \in Range(TheLead.status_updates)

----------------------------------------------------------------------------
(* The store: new_lead, push_lead, close_lead, get, get_mut and the Lead   *)
(* methods applied through get_mut, from an empty store.                   *)

Indexes == {None} \cup {Some(i) : i \in 0..MaxPositions}

InitStore ==
    /\ db = Leads_new
    /\ detached = None
    /\ last = NoCall
    /\ written = {}
    /\ ops = 0
    /\ CliIdle

CanCall == ops < MaxStoreOps

RoomFor(name) == IF name \in DOMAIN db THEN Len(db[name]) < MaxPositions ELSE TRUE

S_new_lead ==
    /\ CanCall
    /\ \E name \in Companies, position \in Positions, source \in Sources, now \in Times :
        /\ RoomFor(name)
        /\ LET r == new_lead(db, now, name, position, source) IN
            /\ db' = r.self
            /\ last' = Call("new_lead", name, None, now, position, Ok(r.ret))
    /\ ops' = ops + 1
    /\ UNCHANGED cli
    /\ UNCHANGED <<detached, written>>

\* push_lead of a lead held by value: the lead close_lead returned.
S_push_lead ==
    /\ CanCall
    /\ detached # None
    /\ \E name \in Companies :
        /\ RoomFor(name)
        /\ LET r == push_lead(db, name, Unwrap(detached)) IN
            /\ db' = r.self
            /\ last' = Call("push_lead", name, None, 0, "", Ok(r.ret))
    /\ detached' = None
    /\ ops' = ops + 1
    /\ UNCHANGED cli
    /\ UNCHANGED written

S_close_lead ==
    /\ CanCall
    /\ \E date \in Times, name \in Companies, index \in Indexes, reason \in Reasons :
        LET r == close_lead(db, date, name, index, reason) IN
        /\ db' = r.self
        /\ detached' = IF r.ret.ok THEN Some(r.ret.val) ELSE detached
        /\ last' = Call("close_lead", name, index, date, reason, r.ret)
    /\ ops' = ops + 1
    /\ UNCHANGED cli
    /\ UNCHANGED written

S_get ==
    /\ CanCall
    /\ \E name \in Companies, index \in Indexes :
        last' = Call("get", name, index, 0, "", get(db, name, index))
    /\ ops' = ops + 1
    /\ UNCHANGED cli
    /\ UNCHANGED <<db, detached, written>>

S_get_mut ==
    /\ CanCall
    /\ \E name \in Companies, index \in Indexes :
        last' = Call("get_mut", name, index, 0, "", get_mut(db, name, index))
    /\ ops' = ops + 1
    /\ UNCHANGED cli
    /\ UNCHANGED <<db, detached, written>>

\* A Lead method called on the lead get_mut resolves: g is the result of
\* get_mut and r, read only when g succeeded, is [self |-> the lead after
\* the method, ret |-> the result of the method].
OnLead(op, name, index, time, text, g, r) ==
    IF ~g.ok
    THEN /\ db' = db
         /\ last' = Call(op, name, index, time, text, g)
    ELSE /\ db' = Assign(db, name, g.val, r.self)
         /\ last' = Call(op, name, index, time, text, r.ret)

\* The lead a successful get_mut(name, index) refers to.
Target(name, index) == Deref(db, name, get_mut(db, name, index).val)

\* The Lead methods are called here on the company's sole or first position.
Targets == {None, Some(0)}

\* and at one time, the latest: what their times do to a timeline is the
\* subject of the specification of one lead.
MethodTimes == {MaxTime}

S_add_note ==
    /\ CanCall
    /\ \E name \in Companies, index \in Targets, n \in NoteNames, note \in NoteTexts :
        /\ (IF name \in DOMAIN db THEN db[name][1].notes = EmptyMap ELSE TRUE)
        /\ OnLead("add_note", name, index, 0, note, get_mut(db, name, index),
                  [self |-> add_note(Target(name, index), n, note), ret |-> Ok(Unit)])
    /\ ops' = ops + 1
    /\ UNCHANGED cli
    /\ UNCHANGED <<detached, written>>

S_add_status ==
    /\ CanCall
    /\ \E name \in Companies, index \in Targets, date \in MethodTimes, status \in StatusTexts :
        OnLead("add_status", name, index, date, status, get_mut(db, name, index),
               [self |-> add_status(Target(name, index), date, status), ret |-> Ok(Unit)])
    /\ ops' = ops + 1
    /\ UNCHANGED cli
    /\ UNCHANGED <<detached, written>>

S_add_todo ==
    /\ CanCall
    /\ \E name \in Companies, index \in Targets, updated_on \in MethodTimes,
          action \in {"Send resume"}, deadline \in Deadlines :
        /\ (IF name \in DOMAIN db THEN Len(db[name][1].todo) < MaxTasks ELSE TRUE)
        /\ OnLead("add_todo", name, index, updated_on, action, get_mut(db, name, index),
                  [self |-> add_todo(Target(name, index), updated_on, action, deadline),
                   ret  |-> Ok(Unit)])
    /\ ops' = ops + 1
    /\ UNCHANGED cli
    /\ UNCHANGED <<detached, written>>

S_complete_todo ==
    /\ CanCall
    /\ \E name \in Companies, index \in Targets, updated_on \in MethodTimes, i \in {0} :
        OnLead("complete_todo", name, index, updated_on, "", get_mut(db, name, index),
               complete_todo(Target(name, index), updated_on, i))
    /\ ops' = ops + 1
    /\ UNCHANGED cli
    /\ UNCHANGED <<detached, written>>

S_add_wait ==
    /\ CanCall
    /\ \E name \in Companies, index \in Targets, updated_on \in MethodTimes,
          action \in {"Call back"}, expected \in Expecteds :
        /\ (IF name \in DOMAIN db THEN Len(db[name][1].wait) < MaxTasks ELSE TRUE)
        /\ OnLead("add_wait", name, index, updated_on, action, get_mut(db, name, index),
                  [self |-> add_wait(Target(name, index), updated_on, action, expected),
                   ret  |-> Ok(Unit)])
    /\ ops' = ops + 1
    /\ UNCHANGED cli
    /\ UNCHANGED <<detached, written>>

S_complete_wait ==
    /\ CanCall
    /\ \E name \in Companies, index \in Targets, updated_on \in MethodTimes, i \in {0} :
        OnLead("complete_wait", name, index, updated_on, "", get_mut(db, name, index),
               complete_wait(Target(name, index), updated_on, i))
    /\ ops' = ops + 1
    /\ UNCHANGED cli
    /\ UNCHANGED <<detached, written>>

NextStore ==
    \/ S_new_lead
    \/ S_push_lead
    \/ S_close_lead
    \/ S_get
    \/ S_get_mut
    \/ S_add_note
    \/ S_add_status
    \/ S_add_todo
    \/ S_complete_todo
    \/ S_add_wait
    \/ S_complete_wait

SpecStore == InitStore /\ [][NextStore]_vars

----------------------------------------------------------------------------
(* Properties of the store, checked under SpecStore.                       *)

TotalPositions(self) == Cardinality({<<c, i>> \in Companies \X (1..(MaxPositions + 1)) :
                                        c \in DOMAIN self /\ i \in DOMAIN self[c]})

AmbiguousModify == "There are {} positions for this company, please specify which one to modify"
OutOfRangeModify == "There are only {} positions for this company, cannot modify position {}"

\* C1: a company key is in the map iff its sequence of positions is
\* non-empty: no reachable store holds a key with an empty sequence.
C1_NoEmptySequence ==
    \A c \in DOMAIN db : Len(db[c]) > 0

\* C1 witness: the last position of a company was closed and its key is
\* gone, while another company is still in the store.
C1_Witness ==
    /\ last.op = "close_lead"
    /\ last.ret.ok
    /\ last.name \notin DOMAIN db
    /\ DOMAIN db # {}

\* C2: without an index, get and get_mut fail with "No such company" for an
\* absent company, return the sole position of a company that has exactly
\* one, and fail with the ambiguity error carrying the exact number of
\* positions when it has two or more.
C2_ResolveWithoutIndex ==
    \A c \in Companies :
        LET r == get(db, c, None)
            m == get_mut(db, c, None)
        IN  IF c \notin DOMAIN db
            THEN /\ ~r.ok /\ r.err.msg = "No such company"
                 /\ ~m.ok /\ m.err.msg = "No such company"
            ELSE IF Len(db[c]) = 1
            THEN /\ r = Ok(db[c][1])
                 /\ m.ok /\ Deref(db, c, m.val) = db[c][1]
            ELSE /\ Len(db[c]) >= 2
                 /\ ~r.ok /\ r.err.msg = AmbiguousModify /\ r.err.args = <<Len(db[c])>>
                 /\ ~m.ok /\ m.err.msg = AmbiguousModify /\ m.err.args = <<Len(db[c])>>

\* C2 witness: get without an index was called on a company with two
\* positions and reported the ambiguity with count 2.
C2_Witness ==
    /\ last.op = "get"
    /\ last.index = None
    /\ last.name \in DOMAIN db
    /\ Len(db[last.name]) = 2
    /\ ~last.ret.ok
    /\ last.ret.err.args = <<2>>

\* C3: with an explicit index i on a present company with count positions,
\* get and get_mut fail with the out-of-range error iff i >= count and
\* otherwise return exactly the lead stored at position i.
C3_ResolveWithIndex ==
    \A c \in DOMAIN db : \A i \in 0..(MaxPositions + 1) :
        LET r == get(db, c, Some(i))
            m == get_mut(db, c, Some(i))
            count == Len(db[c])
        IN  IF i >= count
            THEN /\ ~r.ok /\ r.err.msg = OutOfRangeModify /\ r.err.args = <<count, i>>
                 /\ ~m.ok /\ m.err.msg = OutOfRangeModify /\ m.err.args = <<count, i>>
            ELSE /\ r = Ok(db[c][i + 1])
                 /\ m.ok /\ Deref(db, c, m.val) = db[c][i + 1]

\* C3 witness: get with index 1 returned the second of two different leads.
C3_Witness ==
    /\ last.op = "get"
    /\ last.index = Some(1)
    /\ last.ret.ok
    /\ last.name \in DOMAIN db
    /\ Len(db[last.name]) = 2
    /\ db[last.name][1] # db[last.name][2]
    /\ last.ret.val = db[last.name][2]

\* C4: a successful close_lead removes exactly one position (the total drops
\* by one and only the target company's sequence changes), the returned
\* lead's timeline holds "Closed: {reason}" at time, and the company key is
\* deleted iff the company has no positions left.
C4_CloseRemovesOne ==
    [][(last'.op = "close_lead" /\ last'.ret.ok)
        => LET name == last'.name IN
           /\ name \in DOMAIN db
           /\ TotalPositions(db') = TotalPositions(db) - 1
           /\ \A c \in Companies \ {name} :
                 /\ (c \in DOMAIN db') = (c \in DOMAIN db)
                 /\ c \in DOMAIN db => db'[c] = db[c]
           /\ <<last'.time, "Closed: " \o last'.text>>
                 \in Range(last'.ret.val.status_updates)
           /\ (name \notin DOMAIN db') = (Len(db[name]) = 1)
           /\ name \in DOMAIN db' => Len(db'[name]) = Len(db[name]) - 1]_vars

\* C4 witness: a position of a company with two positions was closed while
\* another company was in the store; the company keeps its other position.
C4_Witness ==
    /\ last.op = "close_lead"
    /\ last.ret.ok
    /\ last.name \in DOMAIN db
    /\ Len(db[last.name]) = 1
    /\ DOMAIN db = Companies
    /\ detached = Some(last.ret.val)

\* C13: new_lead returns the number of positions the company had, appends
\* one lead at the end of the company's sequence (a new sequence for an
\* absent company), leaves every lead already there at its index and every
\* other company as it was; the new lead has the given position and source,
\* no notes, todo or wait, and a timeline of the one entry "Created".
C13_NewLeadAppends ==
    [][last'.op = "new_lead"
        => LET name == last'.name
               old  == IF name \in DOMAIN db THEN db[name] ELSE <<>>
           IN  /\ last'.ret = Ok(Len(old))
               /\ name \in DOMAIN db'
               /\ Len(db'[name]) = Len(old) + 1
               /\ \A j \in 1..Len(old) : db'[name][j] = old[j]
               /\ \A c \in Companies \ {name} :
                     /\ (c \in DOMAIN db') = (c \in DOMAIN db)
                     /\ c \in DOMAIN db => db'[c] = db[c]
               /\ LET lead == db'[name][Len(old) + 1]
                  IN  /\ lead.position = last'.text
                      /\ lead.source \in Sources
                      /\ lead.notes = EmptyMap
                      /\ lead.todo = <<>>
                      /\ lead.wait = <<>>
                      /\ lead.status_updates = << <<last'.time, "Created">> >>]_vars

\* C13 witness: new_lead added a second position to a company, returned 1,
\* and the earlier, different lead is still at index 0, while the other
\* company is in the store.
C13_Witness ==
    /\ last.op = "new_lead"
    /\ last.ret = Ok(1)
    /\ Len(db[last.name]) = 2
    /\ db[last.name][1] # db[last.name][2]
    /\ db[last.name][2].status_updates = << <<last.time, "Created">> >>
    /\ DOMAIN db = Companies

\* The 0-based position a successful close_lead call removed.
ClosedIndex(call) == IF call.index = None THEN 0 ELSE Unwrap(call.index)

\* C15: a successful close_lead of position i keeps the order of the
\* company's other positions: a lead at an index below i stays at its
\* index, a lead at an index above i moves down by one, each unchanged, and
\* the positions of every other company are unchanged.
C15_CloseKeepsOrder ==
    [][(last'.op = "close_lead" /\ last'.ret.ok)
        => LET name == last'.name
               i    == ClosedIndex(last')
               old  == db[name]
               new  == IF name \in DOMAIN db' THEN db'[name] ELSE <<>>
           IN  /\ i < Len(old)
               /\ Len(new) = Len(old) - 1
               /\ \A j \in 0..(Len(old) - 1) :
                     /\ j < i => new[j + 1] = old[j + 1]
                     /\ j > i => new[j] = old[j + 1]
               /\ \A c \in Companies \ {name} :
                     /\ (c \in DOMAIN db') = (c \in DOMAIN db)
                     /\ c \in DOMAIN db => db'[c] = db[c]]_vars

\* C15 witness: position 1 of a company with two different positions was
\* closed; the lead that was at index 0 is still there, and the other
\* company is in the store.
C15_Witness ==
    /\ last.op = "close_lead"
    /\ last.ret.ok
    /\ last.index = Some(1)
    /\ last.name \in DOMAIN db
    /\ Len(db[last.name]) = 1
    /\ db[last.name][1].status_updates # SubSeq(last.ret.val.status_updates, 1, 1)
    /\ DOMAIN db = Companies

\* The kind of a resolution error, whichever operation words it.
ErrorKind(e) ==
    CASE e.msg = "No such company" -> "NotFound"
      [] e.msg \in {AmbiguousModify,
                    "There are {} positions for this company, please specify which one to close"}
            -> "Ambiguous"
      [] e.msg \in {OutOfRangeModify,
                    "There are only {} positions for this company, cannot close position {}"}
            -> "OutOfRange"
      [] OTHER -> "Other"

\* C16: on every reachable store, for every company and optional index,
\* close_lead succeeds exactly when get does; when they fail they fail with
\* the same kind of error (no such company, ambiguous, out of range) and the
\* same count and index; when they succeed the lead close_lead returns is the
\* one get returns, with the closing entry added, and the company has one
\* position fewer.
C16_CloseResolvesLikeGet ==
    \A c \in Companies, index \in Indexes, date \in Times, reason \in Reasons :
        LET g == get(db, c, index)
            r == close_lead(db, date, c, index, reason)
        IN  /\ r.ret.ok = g.ok
            /\ ~g.ok => /\ ErrorKind(r.ret.err) = ErrorKind(g.err)
                        /\ ErrorKind(g.err) # "Other"
                        /\ r.ret.err.args = g.err.args
            /\ g.ok => /\ r.ret.val = add_status(g.val, date, "Closed: " \o reason)
                       /\ TotalPositions(r.self) = TotalPositions(db) - 1
                       /\ IF c \in DOMAIN r.self
                          THEN r.self[c] = Vec_remove(db[c], ClosedIndex([index |-> index]))
                          ELSE Len(db[c]) = 1

\* C16 witness: close_lead without an index was refused on a company with
\* two positions, with the count 2, as get is on the same store.
C16_Witness ==
    /\ last.op = "close_lead"
    /\ last.index = None
    /\ ~last.ret.ok
    /\ ErrorKind(last.ret.err) = "Ambiguous"
    /\ last.ret.err.args = <<2>>
    /\ last.name \in DOMAIN db
    /\ Len(db[last.name]) = 2
    /\ ~get(db, last.name, None).ok
    /\ get(db, last.name, None).err.args = <<2>>

\* C18: a close_lead call that fails was given an absent company, no index
\* on a company whose number of positions is not one, or an index at or
\* past that number, and leaves the store as it was: the same companies,
\* sequences, leads and timelines; no lead is handed out.
C18_FailedCloseChangesNothing ==
    [][(last'.op = "close_lead" /\ ~last'.ret.ok)
        => /\ db' = db
           /\ detached' = detached
           /\ \/ last'.name \notin DOMAIN db
              \/ /\ last'.name \in DOMAIN db
                 /\ IF last'.index = None
                    THEN Len(db[last'.name]) # 1
                    ELSE Unwrap(last'.index) >= Len(db[last'.name])]_vars

\* C18 witness: close_lead with index 2 was refused on a company with two
\* positions, which are both still there, none of them closed.
C18_Witness ==
    /\ last.op = "close_lead"
    /\ ~last.ret.ok
    /\ last.index = Some(2)
    /\ ErrorKind(last.ret.err) = "OutOfRange"
    /\ last.name \in DOMAIN db
    /\ Len(db[last.name]) = 2
    /\ \A i \in DOMAIN db[last.name] :
          "Closed: " \o last.text \notin Messages(db[last.name][i].status_updates)

----------------------------------------------------------------------------
(* main and Args::execute, one invocation after the other.                 *)

Ons == {None} \cup {Some(t) : t \in Times}
TaskIndexes == {0, 1}

Commands ==
    {Cmd("SelfCheck", "", None, None, "", 0, None)}
    \cup {Cmd("New", c, i, None, t, 0, None) :
            c \in Companies, i \in Targets, t \in Positions}
    \cup {Cmd("Close", c, i, on, t, 0, None) :
            c \in Companies, i \in Indexes, on \in Ons, t \in Reasons}
    \cup {Cmd("NoteAdd", c, i, None, t, 0, None) :
            c \in Companies, i \in Targets, t \in NoteTexts}
    \cup {Cmd("NoteReplace", TheCompany, None, None, t, 0, None) : t \in NoteTexts}
    \cup {Cmd("Status", c, i, on, t, 0, None) :
            c \in Companies, i \in Targets, on \in Ons, t \in StatusTexts}
    \cup {Cmd("TodoAdd", c, i, on, "Send resume", 0, d) :
            c \in Companies, i \in Targets, on \in Ons,
            d \in {None} \cup {Some(x) : x \in Deadlines}}
    \cup {Cmd("TodoDone", c, i, on, "", k, None) :
            c \in Companies, i \in Targets, on \in Ons, k \in TaskIndexes}
    \cup {Cmd("WaitAdd", c, i, on, "Call back", 0, d) :
            c \in Companies, i \in Targets, on \in Ons, d \in Expecteds}
    \cup {Cmd("WaitDone", c, i, on, "", k, None) :
            c \in Companies, i \in Targets, on \in Ons, k \in TaskIndexes}
    \cup {Cmd("ShowAll", "", None, None, "", 0, None)}
    \cup {Cmd("Show", c, i, None, "", 0, None) : c \in Companies, i \in Targets}

\* chrono::Duration::days(7), in the unit of Times.
DefaultDeadlineDays == 7

\* A handler that resolves its lead with get_mut(..).context("Failed to get
\* lead")? and calls a Lead method on it: g is the result of get_mut, r (read
\* only when g succeeded) the lead after the method and the method's result.
OnResolved(db0, self, g, r) ==
    IF ~g.ok THEN [db |-> db0, ret |-> Context(g, "Failed to get lead")]
    ELSE IF ~r.ret.ok THEN [db |-> Assign(db0, self.company, g.val, r.self), ret |-> r.ret]
    ELSE [db |-> Assign(db0, self.company, g.val, r.self), ret |-> Ok("Commit")]

\* Args::execute for every command but Close: the store afterwards and the
\* result.  now is the value of Utc::now().
execute(self, now, db0) ==
    LET updated_on == IF self.on = None THEN now ELSE Unwrap(self.on)
        g    == get_mut(db0, self.company, self.index)
        lead == Deref(db0, self.company, g.val)
    IN
    CASE self.kind = "SelfCheck" -> [db |-> db0, ret |-> Ok("Discard")]
      [] self.kind = "New" ->
            IF IsSome(self.index)
            THEN [db |-> db0,
                  ret |-> Err(Anyhow("Cannot specify index when creating a new lead", <<>>))]
            ELSE [db |-> new_lead(db0, now, self.company, self.text, "acme.com/jobs/1").self,
                  ret |-> Ok("Commit")]
      [] self.kind = "NoteAdd" ->
            OnResolved(db0, self, g, [self |-> add_note(lead, "hr", self.text), ret |-> Ok(Unit)])
      [] self.kind = "Status" ->
            OnResolved(db0, self, g,
                       [self |-> add_status(lead, updated_on, self.text), ret |-> Ok(Unit)])
      [] self.kind = "TodoAdd" ->
            OnResolved(db0, self, g,
                       [self |-> add_todo(lead, updated_on, self.text,
                                          IF self.deadline = None
                                          THEN now + DefaultDeadlineDays
                                          ELSE Unwrap(self.deadline)),
                        ret  |-> Ok(Unit)])
      [] self.kind = "TodoDone" ->
            OnResolved(db0, self, g, complete_todo(lead, updated_on, self.task))
      [] self.kind = "WaitAdd" ->
            OnResolved(db0, self, g,
                       [self |-> add_wait(lead, updated_on, self.text, self.deadline),
                        ret  |-> Ok(Unit)])
      [] self.kind = "WaitDone" ->
            OnResolved(db0, self, g, complete_wait(lead, updated_on, self.task))
      [] self.kind = "ShowAll" -> [db |-> db0, ret |-> Ok("Discard")]
      [] self.kind = "Show" ->
            LET r == get(db0, self.company, self.index) IN
            [db |-> db0, ret |-> IF r.ok THEN Ok("Discard") ELSE r]
      [] OTHER -> [db |-> db0, ret |-> Err(Anyhow("not implemented", <<>>))]

\* Mutant: main goes on to the write-back whatever execute returned.
Proceeds_always(res) == TRUE

\* The ? after args.execute(..): main goes on only when execute succeeded.
Proceeds(res) == res.ok

Finished == {"done", "load_failed", "command_failed", "write_failed", "killed"}

\* Where main is between its load and its exit.
InFlight == {"loaded", "archiving", "executed"}

\* main up to the load of the active store: Args::parse, then from_path.
\* commands is the set the command line is drawn from.
LoadFrom(p, commands) ==
    /\ pc[p] \in {"idle"} \cup Finished
    /\ runs < MaxRuns
    /\ \E c \in commands, io_error \in BOOLEAN :
        LET r == from_path(disk, io_error) IN
        /\ cmd' = [cmd EXCEPT ![p] = c]
        /\ mem' = [mem EXCEPT ![p] = IF r.ok THEN r.val ELSE Leads_new]
        /\ pc' = [pc EXCEPT ![p] = IF r.ok THEN "loaded" ELSE "load_failed"]
        /\ outcome' = [outcome EXCEPT ![p] = IF r.ok THEN Ok("") ELSE r]
    /\ details' = [details EXCEPT ![p] = None]
    /\ arch' = [arch EXCEPT ![p] = Leads_new]
    /\ before' = [before EXCEPT ![p] = disk]
    /\ resolved_on' = [resolved_on EXCEPT ![p] = 0]
    /\ runs' = runs + 1
    /\ raced' = [raced EXCEPT ![p] = {}]
    /\ UNCHANGED <<disk, archive, born, faulted>>
    /\ UNCHANGED lib

Load(p) == LoadFrom(p, Commands)

\* Args::execute for every command but Close.
Execute(p) ==
    /\ pc[p] = "loaded"
    /\ cmd[p].kind # "Close"
    /\ \E now \in Times :
        LET r == execute(cmd[p], now, mem[p]) IN
        /\ resolved_on' = [resolved_on EXCEPT ![p] =
                              IF cmd[p].on = None THEN now ELSE Unwrap(cmd[p].on)]
        /\ mem' = [mem EXCEPT ![p] = r.db]
        /\ outcome' = [outcome EXCEPT ![p] = r.ret]
        /\ pc' = [pc EXCEPT ![p] = IF Proceeds(r.ret) THEN "executed" ELSE "command_failed"]
    /\ UNCHANGED <<disk, archive, cmd, details, arch, before, runs, raced, born, faulted>>
    /\ UNCHANGED lib

\* Command::Close up to the load of the archive: close_lead on the store in
\* memory, then from_path on the archive and push_lead of the closed lead.
ExecuteClose(p) ==
    /\ pc[p] = "loaded"
    /\ cmd[p].kind = "Close"
    /\ \E now \in Times, io_error \in BOOLEAN :
        LET self == cmd[p]
            updated_on == IF self.on = None THEN now ELSE Unwrap(self.on)
            c == close_lead(mem[p], updated_on, self.company, self.index, self.text)
            a == from_path(archive, io_error)
        IN  /\ resolved_on' = [resolved_on EXCEPT ![p] = updated_on]
            /\ IF ~c.ret.ok
               THEN /\ outcome' = [outcome EXCEPT ![p] = Context(c.ret, "Failed to remove lead")]
                    /\ pc' = [pc EXCEPT ![p] =
                                 IF Proceeds(c.ret) THEN "executed" ELSE "command_failed"]
                    /\ UNCHANGED <<mem, details, arch>>
               ELSE /\ mem' = [mem EXCEPT ![p] = c.self]
                    /\ details' = [details EXCEPT ![p] = Some(c.ret.val)]
                    /\ IF ~a.ok
                       THEN /\ outcome' = [outcome EXCEPT ![p] =
                                   Context(a, "Failed to load or create archive")]
                            /\ pc' = [pc EXCEPT ![p] =
                                   IF Proceeds(a) THEN "executed" ELSE "command_failed"]
                            /\ UNCHANGED arch
                       ELSE /\ arch' = [arch EXCEPT ![p] =
                                   push_lead(a.val, self.company, c.ret.val).self]
                            /\ pc' = [pc EXCEPT ![p] = "archiving"]
                            /\ UNCHANGED outcome
    /\ UNCHANGED <<disk, archive, cmd, before, runs, raced, born, faulted>>
    /\ UNCHANGED lib

\* Mutant: the result of the archive write is not looked at: Close returns
\* Ok(Commit) whether or not the document reached the file.
WriteArchive_unchecked(p) ==
    /\ pc[p] = "archiving"
    /\ \E fault \in WriteFaults :
        /\ archive' = create_and_write(archive, arch[p], fault)
        /\ outcome' = [outcome EXCEPT ![p] = Ok("Commit")]
        /\ pc' = [pc EXCEPT ![p] = "executed"]
        /\ faulted' = (faulted \/ fault # "none")
    /\ UNCHANGED <<disk, cmd, mem, details, arch, before, resolved_on, runs, raced, born>>
    /\ UNCHANGED lib

\* Mutant: Close writes the active document at this point, ahead of the
\* archive document.
WriteArchive_db_first(p) ==
    /\ pc[p] = "archiving"
    /\ \E fault \in WriteFaults :
        LET res == IF fault = "none" THEN Ok("Commit")
                   ELSE Err(Anyhow("Failed to write archive", <<>>))
        IN  /\ disk' = create_and_write(disk, mem[p], fault)
            /\ outcome' = [outcome EXCEPT ![p] = res]
            /\ pc' = [pc EXCEPT ![p] = IF Proceeds(res) THEN "executed" ELSE "command_failed"]
            /\ faulted' = (faulted \/ fault # "none")
    /\ UNCHANGED <<archive, cmd, mem, details, arch, before, resolved_on, runs, raced, born>>
    /\ UNCHANGED lib

\* Command::Close, the write of the archive document, then Ok(Commit).
WriteArchive(p) ==
    /\ pc[p] = "archiving"
    /\ \E fault \in WriteFaults :
        LET res == IF fault = "none" THEN Ok("Commit")
                   ELSE Err(Anyhow("Failed to write archive", <<>>))
        IN  /\ archive' = create_and_write(archive, arch[p], fault)
            /\ outcome' = [outcome EXCEPT ![p] = res]
            /\ pc' = [pc EXCEPT ![p] = IF Proceeds(res) THEN "executed" ELSE "command_failed"]
            /\ faulted' = (faulted \/ fault # "none")
    /\ UNCHANGED <<disk, cmd, mem, details, arch, before, resolved_on, runs, raced, born>>
    /\ UNCHANGED lib

\* main after execute: the write-back of the active store, whatever
\* ShouldWrite the command returned.
WriteDb(p) ==
    /\ pc[p] = "executed"
    /\ \E fault \in WriteFaults :
        /\ disk' = create_and_write(disk, mem[p], fault)
        /\ pc' = [pc EXCEPT ![p] = IF ~outcome[p].ok THEN "command_failed"
                                   ELSE IF fault = "none" THEN "done"
                                   ELSE "write_failed"]
        /\ raced' = [r \in Procs |->
                        IF r # p /\ pc[r] \in InFlight /\ fault # "create"
                        THEN raced[r] \cup {p} ELSE raced[r]]
        /\ born' = IF cmd[p].kind = "New" /\ outcome[p].ok /\ fault = "none"
                   THEN born + 1 ELSE born
        /\ faulted' = (faulted \/ fault # "none")
    /\ UNCHANGED <<archive, cmd, mem, details, arch, outcome, before, resolved_on, runs>>
    /\ UNCHANGED lib

\* The process is killed between two steps.
Interrupt(p) ==
    /\ pc[p] \in InFlight
    /\ pc' = [pc EXCEPT ![p] = "killed"]
    /\ UNCHANGED <<disk, archive, cmd, mem, details, arch, outcome, before, resolved_on, runs,
                   raced, born, faulted>>
    /\ UNCHANGED lib

InitCli ==
    /\ db = Leads_new
    /\ detached = None
    /\ last = NoCall
    /\ written = {}
    /\ ops = 0
    /\ CliIdle

\* One invocation runs to its end before the next starts.
NextCli ==
    \/ Load("p1")
    \/ Execute("p1")
    \/ ExecuteClose("p1")
    \/ WriteArchive("p1")
    \/ WriteDb("p1")
    \/ Interrupt("p1")

SpecCli == InitCli /\ [][NextCli]_vars

----------------------------------------------------------------------------
(* Properties of the invocations, checked under SpecCli.                   *)

\* For a Close that ended well: the lead as it was in the active document
\* the invocation loaded, and the lead the invocation appended to the archive.
ClosedSlot(p) == IF cmd[p].index = None THEN 1 ELSE Unwrap(cmd[p].index) + 1
LeadBeforeClose(p) == Deserialize_Lead(before[p].doc[cmd[p].company][ClosedSlot(p)])
ArchivedLead(p) ==
    LET leads == archive.doc[cmd[p].company]
    IN  Deserialize_Lead(leads[Len(leads)])

ClosedWell(p) == pc[p] = "done" /\ cmd[p].kind = "Close"

\* The last entry of a timeline is "Closed: {reason}" and no entry is later.
ClosingEntryIsFinal(lead, reason) ==
    LET m == lead.status_updates IN
    /\ m[Len(m)][2] = "Closed: " \o reason
    /\ \A e \in Range(m) : e[1] <= m[Len(m)][1]

\* After a Close of a company's only position the company is not in the
\* active document.
OnlyPositionGone(p) ==
    Len(before[p].doc[cmd[p].company]) = 1 => cmd[p].company \notin DOMAIN disk.doc

\* C9 as stated: after a successful Close at any resolved time the archived
\* lead has "Closed: {reason}" as its final status entry, and a company whose
\* only position was closed is absent from the active store.
C9_Original_ClosedIsFinalEntry ==
    \A p \in Procs :
        ClosedWell(p) =>
            /\ ClosingEntryIsFinal(ArchivedLead(p), cmd[p].text)
            /\ OnlyPositionGone(p)

\* C9 amended: after a successful Close at a resolved time that is not
\* earlier than any entry the lead's timeline already had, the archived lead
\* has "Closed: {reason}" as its final status entry, at the resolved time; at
\* any resolved time the archived lead holds the closing entry, and a company
\* whose only position was closed is absent from the active store.
C9_ClosedIsFinalUnlessBackdated ==
    \A p \in Procs :
        ClosedWell(p) =>
            /\ <<resolved_on[p], "Closed: " \o cmd[p].text>>
                    \in Range(ArchivedLead(p).status_updates)
            /\ (\A e \in Range(LeadBeforeClose(p).status_updates) : e[1] <= resolved_on[p])
                    => ClosingEntryIsFinal(ArchivedLead(p), cmd[p].text)
            /\ OnlyPositionGone(p)

\* C9 witness: the only position of a company was closed at a time later
\* than its creation; the archive holds it and the active document is empty.
C9_Witness ==
    /\ ClosedWell("p1")
    /\ Len(before["p1"].doc[cmd["p1"].company]) = 1
    /\ Len(ArchivedLead("p1").status_updates) = 2
    /\ ArchivedLead("p1").status_updates[2] = <<resolved_on["p1"], "Closed: Rejected">>
    /\ disk = File(EmptyMap)

\* A Close has written the archive document and main has not yet written
\* the active document: it is about to, or was killed before it could.
ArchiveWritten(p) ==
    /\ cmd[p].kind = "Close"
    /\ outcome[p] = Ok("Commit")
    /\ pc[p] \in {"executed", "killed"}

\* C12: Close writes the archive document before the active document: once
\* the archive is written and until the active document is, also when the
\* invocation is killed in between, the archive holds the closed lead with
\* its closing entry while the active document is still the one loaded and
\* still holds the same lead, open.
C12_ArchiveBeforeActive ==
    \A p \in Procs :
        ArchiveWritten(p) =>
            /\ details[p] # None
            /\ archive.valid
            /\ cmd[p].company \in DOMAIN archive.doc
            /\ ArchivedLead(p) = Unwrap(details[p])
            /\ <<resolved_on[p], "Closed: " \o cmd[p].text>>
                    \in Range(ArchivedLead(p).status_updates)
            /\ disk = before[p]
            /\ cmd[p].company \in DOMAIN disk.doc
            /\ ArchivedLead(p) =
                    add_status(Deserialize_Lead(disk.doc[cmd[p].company][ClosedSlot(p)]),
                               resolved_on[p], "Closed: " \o cmd[p].text)

\* C12 witness: a Close was killed after its archive write; the company is
\* in both documents, closed in the archive and open in the active one.
C12_Witness ==
    /\ pc["p1"] = "killed"
    /\ ArchiveWritten("p1")
    /\ cmd["p1"].company \in DOMAIN archive.doc
    /\ cmd["p1"].company \in DOMAIN disk.doc
    /\ cmd["p1"].company \notin DOMAIN mem["p1"]
    /\ "Closed: Rejected" \in Messages(ArchivedLead("p1").status_updates)
    /\ "Closed: Rejected" \notin
            Messages(Deserialize_Lead(disk.doc[cmd["p1"].company][1]).status_updates)

\* C10: when the command fails, the invocation ends without writing the
\* active document: it is what it was when the invocation loaded it, even
\* if the store in memory was changed before the failure.
C10_FailedCommandLeavesDisk ==
    \A p \in Procs : pc[p] = "command_failed" => disk = before[p]

\* C10 witness: a Close removed the lead from the store in memory and then
\* failed to load the archive; the active document still holds the lead.
C10_Witness ==
    /\ pc["p1"] = "command_failed"
    /\ cmd["p1"].kind = "Close"
    /\ details["p1"] # None
    /\ disk.valid
    /\ mem["p1"] # from_reader(disk.doc)
    /\ cmd["p1"].company \in DOMAIN disk.doc
    /\ cmd["p1"].company \notin DOMAIN mem["p1"]

----------------------------------------------------------------------------
(* Two invocations at once: separate processes over the same two files,    *)
(* with nothing (lock, version check) ordering their loads and writes.     *)

\* The store the invocations start from: one open lead at Acme, created at
\* time 0, before the clock values of the invocations modelled, with a note
\* and a todo added at time 1 and still outstanding.
OpenLead ==
    add_todo(add_note(Lead_new(0, "Engineer", "acme.com/jobs/1"), "hr", "slow to answer"),
             1, "Send resume", 1 + DefaultDeadlineDays)

OneLeadStore == push_lead(Leads_new, "Acme", OpenLead).self

\* The command lines of the racing invocations.
RaceCommands ==
    {Cmd("SelfCheck", "", None, None, "", 0, None),
     Cmd("ShowAll", "", None, None, "", 0, None),
     Cmd("Show", "Acme", None, None, "", 0, None),
     Cmd("New", "Initech", None, None, "Engineer", 0, None),
     Cmd("Status", "Acme", None, None, "Phone screen", 0, None),
     Cmd("Close", "Acme", None, None, "Rejected", 0, None)}

InitRace ==
    /\ db = Leads_new
    /\ detached = None
    /\ last = NoCall
    /\ written = {}
    /\ ops = 0
    /\ disk = File(to_writer(OneLeadStore))
    /\ archive = Missing
    /\ pc = [p \in Procs |-> "idle"]
    /\ cmd = [p \in Procs |-> NoCmd]
    /\ mem = [p \in Procs |-> Leads_new]
    /\ details = [p \in Procs |-> None]
    /\ arch = [p \in Procs |-> Leads_new]
    /\ outcome = [p \in Procs |-> Ok("")]
    /\ before = [p \in Procs |-> Missing]
    /\ resolved_on = [p \in Procs |-> 0]
    /\ runs = 0
    /\ raced = [p \in Procs |-> {}]
    /\ born = 1
    /\ faulted = FALSE

NextRace ==
    \/ \E p \in Procs : LoadFrom(p, RaceCommands)
    \/ \E p \in Procs : Execute(p)
    \/ \E p \in Procs : ExecuteClose(p)
    \/ \E p \in Procs : WriteArchive(p)
    \/ \E p \in Procs : WriteDb(p)
    \/ \E p \in Procs : Interrupt(p)

SpecRace == InitRace /\ [][NextRace]_vars

\* The store an invocation loaded, and the stores its command can turn that
\* store into (one per value of the clock).
LoadedStore(p) == from_path(before[p], FALSE).val
Snapshots(p) ==
    IF cmd[p].kind = "Close"
    THEN {close_lead(LoadedStore(p), resolved_on[p], cmd[p].company,
                     cmd[p].index, cmd[p].text).self}
    ELSE {execute(cmd[p], now, LoadedStore(p)).db : now \in Times}

\* C11: when an invocation writes the active document back after another
\* invocation's write-back reached it since its own load, the document
\* becomes exactly the writer's snapshot, and that snapshot is what the
\* writer's command makes of the document it loaded: nothing of what the
\* other invocation wrote in between is in it.
C11_SecondWriterWins ==
    [][\A q \in Procs :
          (pc[q] = "executed" /\ pc'[q] = "done" /\ raced[q] # {})
              => /\ disk' = File(to_writer(mem[q]))
                 /\ mem[q] \in Snapshots(q)]_vars

\* C11 witness: p1 and p2 both loaded the same store; p1 created a lead at
\* Initech and wrote, then p2 added a status to the lead at Acme and wrote:
\* both ended well, the active document is p2's snapshot and Initech, which
\* p1 had written, is not in it.
C11_Witness ==
    /\ pc = [p \in Procs |-> "done"]
    /\ raced["p2"] = {"p1"}
    /\ raced["p1"] = {}
    /\ before["p1"] = before["p2"]
    /\ cmd["p1"].kind = "New"
    /\ cmd["p2"].kind = "Status"
    /\ "Initech" \in DOMAIN mem["p1"]
    /\ disk = File(to_writer(mem["p2"]))
    /\ DOMAIN disk.doc = {"Acme"}

\* The commands whose execution returns Discard.
ReadOnlyKinds == {"SelfCheck", "ShowAll", "Show"}

\* The store a load of a document yields.
Content(file) == from_path(file, FALSE)

\* C19 as stated: the step in which an invocation of a read-only command
\* (SelfCheck, Show) ends well leaves the content of the active document as
\* it was, whatever other invocations wrote since the invocation's load.
C19_ReadOnlyLeavesDisk ==
    [][\A p \in Procs :
          (cmd[p].kind \in ReadOnlyKinds /\ pc[p] = "executed" /\ pc'[p] = "done")
              => Content(disk') = Content(disk)]_vars

----------------------------------------------------------------------------
(* Invocations one after the other, each run to its end, on documents that *)
(* earlier invocations may have filled.                                    *)

\* An open lead with an outstanding wait, and a lead closed earlier.
WaitingLead ==
    add_wait(Lead_new(0, "Engineer", "acme.com/jobs/1"), 1, "Call back", None)
ClosedLead ==
    close_lead(push_lead(Leads_new, "Acme", Lead_new(0, "Engineer", "acme.com/jobs/1")).self,
               1, "Acme", None, "Rejected").ret.val

TwoLeadStore == push_lead(push_lead(OneLeadStore, "Acme", WaitingLead).self,
                          "Initech", Lead_new(1, "Engineer", "acme.com/jobs/1")).self
ClosedStore == push_lead(Leads_new, "Acme", ClosedLead).self

\* The two documents before the first invocation modelled: none yet, one
\* open lead and no archive, or three open leads and one archived.
Seeds ==
    {<<Missing, Missing>>,
     <<File(to_writer(OneLeadStore)), Missing>>,
     <<File(to_writer(TwoLeadStore)), File(to_writer(ClosedStore))>>}

\* The positions a document holds, as (company, slot) pairs.
DocPositions(file) ==
    UNION {{<<c, i>> : i \in DOMAIN file.doc[c]} : c \in DOMAIN file.doc}
LeadCount(file) == Cardinality(DocPositions(file))

InitSeeded ==
    /\ db = Leads_new
    /\ detached = None
    /\ last = NoCall
    /\ written = {}
    /\ ops = 0
    /\ \E seed \in Seeds :
        /\ disk = seed[1]
        /\ archive = seed[2]
        /\ born = LeadCount(seed[1]) + LeadCount(seed[2])
    /\ pc = [p \in Procs |-> "idle"]
    /\ cmd = [p \in Procs |-> NoCmd]
    /\ mem = [p \in Procs |-> Leads_new]
    /\ details = [p \in Procs |-> None]
    /\ arch = [p \in Procs |-> Leads_new]
    /\ outcome = [p \in Procs |-> Ok("")]
    /\ before = [p \in Procs |-> Missing]
    /\ resolved_on = [p \in Procs |-> 0]
    /\ runs = 0
    /\ raced = [p \in Procs |-> {}]
    /\ faulted = FALSE

\* The command lines run on these documents: every Close, and one command
\* of each other kind.
SeqCommands ==
    {Cmd("Close", c, i, on, t, 0, None) :
        c \in Companies, i \in Indexes, on \in Ons, t \in Reasons}
    \cup {Cmd("New", c, None, None, "Engineer", 0, None) : c \in Companies}
    \cup {Cmd("SelfCheck", "", None, None, "", 0, None),
          Cmd("ShowAll", "", None, None, "", 0, None),
          Cmd("Show", "Acme", Some(0), None, "", 0, None),
          Cmd("NoteAdd", "Acme", Some(0), None, "slow to answer", 0, None),
          Cmd("Status", "Acme", Some(0), None, "Phone screen", 0, None),
          Cmd("TodoAdd", "Initech", None, None, "Send resume", 0, None),
          Cmd("TodoDone", "Acme", Some(0), None, "", 0, None),
          Cmd("WaitAdd", "Initech", None, None, "Call back", 0, None),
          Cmd("WaitDone", "Acme", Some(1), None, "", 0, None)}

\* No invocation is killed and none starts before the previous one ended.
NextSeq ==
    \/ LoadFrom("p1", SeqCommands)
    \/ Execute("p1")
    \/ ExecuteClose("p1")
    \/ WriteArchive("p1")
    \/ WriteDb("p1")

SpecSeq == InitSeeded /\ [][NextSeq]_vars

----------------------------------------------------------------------------
(* Properties of the sequential invocations, checked under SpecSeq.        *)

\* No invocation is running.
BetweenCommands == \A p \in Procs : pc[p] \in {"idle"} \cup Finished

IsPrefix(s, t) == Len(s) <= Len(t) /\ \A i \in DOMAIN s : t[i] = s[i]

\* Every lead created is in exactly one of the two documents: together
\* they hold as many leads as were created.
EachLeadInOneStore == LeadCount(disk) + LeadCount(archive) = born

\* A step keeps every archived lead where it is: each company of the
\* archive keeps its sequence as a prefix of its new one.
ArchiveOnlyGrows ==
    \A c \in DOMAIN archive.doc :
        /\ c \in DOMAIN archive'.doc
        /\ IsPrefix(archive.doc[c], archive'.doc[c])

\* A step that puts more leads in the active document is the write-back of
\* a New: no lead comes back from the archive.
ActiveGrowsOnlyByNew ==
    LeadCount(disk') > LeadCount(disk) =>
        \E p \in Procs : pc[p] = "executed" /\ pc'[p] = "done" /\ cmd[p].kind = "New"

SameButTimeline(old, new) ==
    /\ new.position = old.position
    /\ new.source = old.source
    /\ new.notes = old.notes
    /\ new.interviews = old.interviews
    /\ new.red_flags = old.red_flags
    /\ new.todo = old.todo
    /\ new.wait = old.wait

\* C17 as stated: after a successful Close at any resolved time the archived
\* lead is the lead the active document held, with every status entry it
\* had and exactly one entry more, "Closed: {reason}".
C17_Original_UnchangedPlusOneEntry ==
    \A p \in Procs :
        ClosedWell(p) =>
            LET old == LeadBeforeClose(p)
                new == ArchivedLead(p)
            IN  /\ SameButTimeline(old, new)
                /\ Range(old.status_updates) \subseteq Range(new.status_updates)
                /\ "Closed: " \o cmd[p].text \in Messages(new.status_updates)
                /\ Len(new.status_updates) = Len(old.status_updates) + 1

\* C17 amended: after a successful Close the archived lead has the position,
\* source, notes, todo and wait lists the active document held and the entry
\* "Closed: {reason}" at the resolved time; when the lead had no entry at
\* that time, every earlier entry is kept and the timeline is one entry
\* longer; when it had one, that entry is replaced by the closing entry, the
\* others are kept and the timeline keeps its length.
C17_UnchangedPlusClosingEntry ==
    \A p \in Procs :
        ClosedWell(p) =>
            LET old == LeadBeforeClose(p)
                new == ArchivedLead(p)
                t   == resolved_on[p]
            IN  /\ SameButTimeline(old, new)
                /\ <<t, "Closed: " \o cmd[p].text>> \in Range(new.status_updates)
                /\ \A e \in Range(old.status_updates) :
                      e[1] # t => e \in Range(new.status_updates)
                /\ Len(new.status_updates) =
                      (IF t \in Keys(old.status_updates)
                       THEN Len(old.status_updates)
                       ELSE Len(old.status_updates) + 1)

\* C17 witness: a lead with a note and an outstanding todo was closed at a
\* time none of its entries had; the archive holds it after the lead
\* archived earlier, with its note, its todo and one entry more.
C17_Witness ==
    /\ ClosedWell("p1")
    /\ Len(archive.doc[cmd["p1"].company]) = 2
    /\ Len(ArchivedLead("p1").todo) = 1
    /\ DOMAIN ArchivedLead("p1").notes # {}
    /\ resolved_on["p1"] \notin Keys(LeadBeforeClose("p1").status_updates)
    /\ Len(ArchivedLead("p1").status_updates) =
          Len(LeadBeforeClose("p1").status_updates) + 1

----------------------------------------------------------------------------
(* One invocation at a time on the same documents, each of which may be    *)
(* killed between two of its steps.                                        *)

NextArchive ==
    \/ LoadFrom("p1", SeqCommands)
    \/ Execute("p1")
    \/ ExecuteClose("p1")
    \/ WriteArchive("p1")
    \/ WriteDb("p1")
    \/ Interrupt("p1")

SpecArchive == InitSeeded /\ [][NextArchive]_vars

\* The invocation is a Close of a lead the active document held when it was
\* loaded, and that lead.
ClosingLead(p) ==
    /\ cmd[p].kind = "Close"
    /\ pc[p] \notin {"idle", "load_failed"}
    /\ get(LoadedStore(p), cmd[p].company, cmd[p].index).ok
LeadToClose(p) == get(LoadedStore(p), cmd[p].company, cmd[p].index).val

\* The lead is among the company's positions in the active document, open;
\* it is among them in the archive document, with its closing entry.
InActive(p) ==
    /\ disk.valid
    /\ cmd[p].company \in DOMAIN disk.doc
    /\ LeadToClose(p) \in Range(from_reader(disk.doc)[cmd[p].company])
InArchive(p) ==
    /\ archive.valid
    /\ cmd[p].company \in DOMAIN archive.doc
    /\ add_status(LeadToClose(p), resolved_on[p], "Closed: " \o cmd[p].text)
          \in Range(from_reader(archive.doc)[cmd[p].company])

\* C20: at every point of a Close invocation, and wherever it is killed, the
\* lead being closed is in the active document, in the archive document or
\* in both: in no state is it absent from both.
C20_CloseNeverLosesLead ==
    \A p \in Procs : ClosingLead(p) => (InActive(p) \/ InArchive(p))

\* C20 witness: a Close was killed after close_lead took the lead out of the
\* store in memory and before the archive was written: the lead is in the
\* active document only.
C20_Witness ==
    /\ pc["p1"] = "killed"
    /\ ClosingLead("p1")
    /\ details["p1"] # None
    /\ outcome["p1"] = Ok("")
    /\ mem["p1"] # LoadedStore("p1")
    /\ InActive("p1")
    /\ ~InArchive("p1")

====
